---- MODULE Spec2Model ----
(***************************************************************************)
(* Type classifiers and the inline test harness of js-part-0.              *)
(*                                                                         *)
(* The repository holds three versions of one program:                     *)
(*   "index"  src/index.js          (permissive: [] / false on a non-array)*)
(*   "p000"   src/unnamed/part_000  (TypeScript, strict: throws TypeError) *)
(*   "p001"   src/unnamed/part_001  (JavaScript, strict: throws TypeError) *)
(* The three are run side by side on the same input; every operation is    *)
(* one atomic step (the code is synchronous and single threaded).          *)
(***************************************************************************)
EXTENDS Integers, Sequences, FiniteSets, TLC

\* Longest input array handed to a sequence operation.
MaxLen == 3
\* Most harness calls (test / testBlock) in one run.
MaxCalls == 3

\* Most comparisons (calls of test on a pair of values) in one run.
MaxCompares == 1

Variants == {"index", "p000", "p001"}
Strict == {"p000", "p001"}

(***************************************************************************)
(* JavaScript values.  tag is the ECMAScript language type; num tells the  *)
(* special numbers apart; n is the magnitude of a finite number; cls is    *)
(* the class an object was constructed from; val is the payload of a       *)
(* string or boolean; id is the identity of an object (two array literals  *)
(* are two objects); items are an array's elements.                        *)
(***************************************************************************)
JSValue(tag, num, n, cls, val, id, items) ==
    [tag |-> tag, num |-> num, n |-> n, cls |-> cls, val |-> val, id |-> id,
     items |-> items]

Undefined == JSValue("undefined", "none", 0, "none", "", 0, <<>>)
Null == JSValue("null", "none", 0, "none", "", 0, <<>>)
Bool(b) == JSValue("boolean", "none", 0, "none", IF b THEN "true" ELSE "false", 0, <<>>)
Num(k) == JSValue("number", "finite", k, "none", "", 0, <<>>)
NaN == JSValue("number", "nan", 0, "none", "", 0, <<>>)
PosInfinity == JSValue("number", "posinf", 0, "none", "", 0, <<>>)
NegInfinity == JSValue("number", "neginf", 0, "none", "", 0, <<>>)
Str(s) == JSValue("string", "none", 0, "none", s, 0, <<>>)
Sym == JSValue("symbol", "none", 0, "none", "", 0, <<>>)
BigInt == JSValue("bigint", "none", 0, "none", "", 0, <<>>)
Obj(cls, id) == JSValue("object", "none", 0, cls, "", id, <<>>)
Arr(id, items) == JSValue("object", "none", 0, "Array", "", id, items)

\* The constructors an object of class cls is an instance of (its prototype
\* chain, with the built-in prototypes as the language defines them).
ProtoChain(cls) ==
    CASE cls = "none" -> {}
      [] cls = "Object" -> {"Object"}
      [] cls = "TypeError" -> {"TypeError", "Error", "Object"}
      [] OTHER -> {cls, "Object"}

\* value instanceof C
InstanceOf(value, C) == value.tag = "object" /\ C \in ProtoChain(value.cls)

\* Array.isArray(value)
IsArray(value) == value.tag = "object" /\ value.cls = "Array"

\* value === null
IsNull(value) == value.tag = "null"

\* isNaN(value) and isFinite(value), called on values whose typeof is number
isNaN(value) == value.tag = "number" /\ value.num = "nan"
isFinite(value) == value.tag = "number" /\ value.num = "finite"

\* The typeof operator: null is "object", a callable object is "function".
TypeOf(value) ==
    CASE value.tag = "null" -> "object"
      [] value.tag = "object" ->
            IF "Function" \in ProtoChain(value.cls) THEN "function" ELSE "object"
      [] OTHER -> value.tag

(***************************************************************************)
(* The classifiers of a single value.                                      *)
(***************************************************************************)
getType_index(value) == TypeOf(value)
getType_p000(value) == TypeOf(value)
getType_p001(value) == TypeOf(value)

getRealType_index(value) ==
    LET type == getType_index(value) IN
    IF type = "number" /\ isNaN(value) THEN "NaN"
    ELSE IF type = "number" /\ ~isFinite(value) THEN "Infinity"
    ELSE IF type = "object" /\ IsNull(value) THEN "null"
    ELSE IF type = "object" /\ IsArray(value) THEN "array"
    ELSE IF type = "object" /\ InstanceOf(value, "Date") THEN "date"
    ELSE IF type = "object" /\ InstanceOf(value, "RegExp") THEN "regexp"
    ELSE IF type = "object" /\ InstanceOf(value, "Set") THEN "set"
    ELSE type

\* A getRealType that tests isFinite before isNaN and has no null case.
getRealType_p000_slip(value) ==
    IF TypeOf(value) = "number" /\ ~isFinite(value) THEN "Infinity"
    ELSE IF TypeOf(value) = "number" /\ isNaN(value) THEN "NaN"
    ELSE IF IsArray(value) THEN "array"
    ELSE IF InstanceOf(value, "Date") THEN "date"
    ELSE IF InstanceOf(value, "RegExp") THEN "regexp"
    ELSE IF InstanceOf(value, "Set") THEN "set"
    ELSE IF InstanceOf(value, "Map") THEN "map"
    ELSE IF InstanceOf(value, "Error") THEN "error"
    ELSE IF InstanceOf(value, "ArrayBuffer") THEN "arrayBuffer"
    ELSE IF InstanceOf(value, "DataView") THEN "dataView"
    ELSE IF InstanceOf(value, "Promise") THEN "promise"
    ELSE TypeOf(value)

getRealType_p000(value) ==
    IF TypeOf(value) = "number" /\ isNaN(value) THEN "NaN"
    ELSE IF TypeOf(value) = "number" /\ ~isFinite(value) THEN "Infinity"
    ELSE IF IsNull(value) THEN "null"
    ELSE IF IsArray(value) THEN "array"
    ELSE IF InstanceOf(value, "Date") THEN "date"
    ELSE IF InstanceOf(value, "RegExp") THEN "regexp"
    ELSE IF InstanceOf(value, "Set") THEN "set"
    ELSE IF InstanceOf(value, "Map") THEN "map"
    ELSE IF InstanceOf(value, "Error") THEN "error"
    ELSE IF InstanceOf(value, "ArrayBuffer") THEN "arrayBuffer"
    ELSE IF InstanceOf(value, "DataView") THEN "dataView"
    ELSE IF InstanceOf(value, "Promise") THEN "promise"
    ELSE TypeOf(value)

getRealType_p001(value) ==
    LET type == TypeOf(value) IN
    IF type = "number" /\ isNaN(value) THEN "NaN"
    ELSE IF type = "number" /\ ~isFinite(value) THEN "Infinity"
    ELSE IF IsNull(value) THEN "null"
    ELSE IF IsArray(value) THEN "array"
    ELSE IF InstanceOf(value, "Date") THEN "date"
    ELSE IF InstanceOf(value, "RegExp") THEN "regexp"
    ELSE IF InstanceOf(value, "Set") THEN "set"
    ELSE IF InstanceOf(value, "Map") THEN "map"
    ELSE IF InstanceOf(value, "Error") THEN "error"
    ELSE IF InstanceOf(value, "ArrayBuffer") THEN "arrayBuffer"
    ELSE IF InstanceOf(value, "DataView") THEN "dataView"
    ELSE IF InstanceOf(value, "Promise") THEN "promise"
    ELSE type

getType(variant, value) ==
    CASE variant = "index" -> getType_index(value)
      [] variant = "p000" -> getType_p000(value)
      [] variant = "p001" -> getType_p001(value)

getRealType(variant, value) ==
    CASE variant = "index" -> getRealType_index(value)
      [] variant = "p000" -> getRealType_p000(value)
      [] variant = "p001" -> getRealType_p001(value)

(***************************************************************************)
(* What a call leaves behind: the value returned or the error thrown, how  *)
(* many items had been classified when it ended, and the argument as the   *)
(* caller finds it afterwards.                                             *)
(***************************************************************************)
Returned(ret, classified, arg) ==
    [returned |-> TRUE, thrown |-> "none", ret |-> ret,
     classified |-> classified, arg |-> arg]

\* throw new TypeError('Passed parameter is not an array')
Thrown(error, arg) ==
    [returned |-> FALSE, thrown |-> error, ret |-> <<>>,
     classified |-> 0, arg |-> arg]

\* Array.prototype.reverse, used by a faulty variant only.
Reverse(items) == [i \in 1..Len(items) |-> items[Len(items) + 1 - i]]

(***************************************************************************)
(* getTypesOfItems.  arr.map gives one result per element, in index order. *)
(***************************************************************************)
getTypesOfItems_index(arr) ==
    IF ~IsArray(arr) THEN Returned(<<>>, 0, arr)
    ELSE Returned([i \in 1..Len(arr.items) |-> TypeOf(arr.items[i])],
                  Len(arr.items), arr)

\* A getTypesOfItems that lists the labels back to front.
getTypesOfItems_p000_reversed(arr) ==
    IF ~IsArray(arr) THEN Thrown("TypeError", arr)
    ELSE Returned(Reverse([i \in 1..Len(arr.items) |-> getType_p000(arr.items[i])]),
                  Len(arr.items), arr)

getTypesOfItems_p000(arr) ==
    IF ~IsArray(arr) THEN Thrown("TypeError", arr)
    ELSE Returned([i \in 1..Len(arr.items) |-> getType_p000(arr.items[i])],
                  Len(arr.items), arr)

getTypesOfItems_p001(arr) ==
    IF ~IsArray(arr) THEN Thrown("TypeError", arr)
    ELSE Returned([i \in 1..Len(arr.items) |-> getType_p001(arr.items[i])],
                  Len(arr.items), arr)

(***************************************************************************)
(* allItemsHaveTheSameType.  The loop is the same in the three files: it   *)
(* starts at the second element (index i, counted from 1 here) and stops   *)
(* at the first element whose typeof differs from the first element's.     *)
(***************************************************************************)
RECURSIVE sameTypeLoop(_, _, _)
sameTypeLoop(items, type, i) ==
    IF i > Len(items) THEN [ret |-> TRUE, classified |-> i - 1]
    ELSE IF TypeOf(items[i]) # type THEN [ret |-> FALSE, classified |-> i]
    ELSE sameTypeLoop(items, type, i + 1)

\* An allItemsHaveTheSameType whose loop starts one element too late.
allItemsHaveTheSameType_index_late(arr) ==
    IF ~IsArray(arr) THEN Returned(FALSE, 0, arr)
    ELSE IF Len(arr.items) = 0 THEN Returned(TRUE, 0, arr)
    ELSE LET r == sameTypeLoop(arr.items, TypeOf(arr.items[1]), 3)
         IN  Returned(r.ret, r.classified, arr)

allItemsHaveTheSameType_index(arr) ==
    IF ~IsArray(arr) THEN Returned(FALSE, 0, arr)
    ELSE IF Len(arr.items) = 0 THEN Returned(TRUE, 0, arr)
    ELSE LET r == sameTypeLoop(arr.items, TypeOf(arr.items[1]), 2)
         IN  Returned(r.ret, r.classified, arr)

allItemsHaveTheSameType_p000(arr) ==
    IF ~IsArray(arr) THEN Thrown("TypeError", arr)
    ELSE IF Len(arr.items) <= 1 THEN Returned(TRUE, 0, arr)
    ELSE LET r == sameTypeLoop(arr.items, TypeOf(arr.items[1]), 2)
         IN  Returned(r.ret, r.classified, arr)

allItemsHaveTheSameType_p001(arr) ==
    IF ~IsArray(arr) THEN Thrown("TypeError", arr)
    ELSE IF Len(arr.items) <= 1 THEN Returned(TRUE, 0, arr)
    ELSE LET r == sameTypeLoop(arr.items, TypeOf(arr.items[1]), 2)
         IN  Returned(r.ret, r.classified, arr)

(***************************************************************************)
(* getRealTypesOfItems                                                     *)
(***************************************************************************)
getRealTypesOfItems_index(arr) ==
    IF ~IsArray(arr) THEN Returned(<<>>, 0, arr)
    ELSE Returned([i \in 1..Len(arr.items) |-> getRealType_index(arr.items[i])],
                  Len(arr.items), arr)

getRealTypesOfItems_p000(arr) ==
    IF ~IsArray(arr) THEN Thrown("TypeError", arr)
    ELSE Returned([i \in 1..Len(arr.items) |-> getRealType_p000(arr.items[i])],
                  Len(arr.items), arr)

getRealTypesOfItems_p001(arr) ==
    IF ~IsArray(arr) THEN Thrown("TypeError", arr)
    ELSE Returned([i \in 1..Len(arr.items) |-> getRealType_p001(arr.items[i])],
                  Len(arr.items), arr)

(***************************************************************************)
(* everyItemHasAUniqueRealType.  types is the Set of labels seen so far.   *)
(***************************************************************************)
RECURSIVE uniqueLoop(_, _, _, _)
uniqueLoop(variant, items, i, types) ==
    IF i > Len(items) THEN [ret |-> TRUE, classified |-> i - 1]
    ELSE LET type == getRealType(variant, items[i]) IN
         IF type \in types THEN [ret |-> FALSE, classified |-> i]
         ELSE uniqueLoop(variant, items, i + 1, types \cup {type})

\* A loop that remembers only the label of the element just before.
RECURSIVE uniqueLoop_adjacent(_, _, _, _)
uniqueLoop_adjacent(variant, items, i, types) ==
    IF i > Len(items) THEN [ret |-> TRUE, classified |-> i - 1]
    ELSE LET type == getRealType(variant, items[i]) IN
         IF type \in types THEN [ret |-> FALSE, classified |-> i]
         ELSE uniqueLoop_adjacent(variant, items, i + 1, {type})

\* An everyItemHasAUniqueRealType with the strict guard of the other files.
everyItemHasAUniqueRealType_index_throwing(arr) ==
    IF ~IsArray(arr) THEN Thrown("TypeError", arr)
    ELSE LET r == uniqueLoop("index", arr.items, 1, {})
         IN  Returned(r.ret, r.classified, arr)

everyItemHasAUniqueRealType_index(arr) ==
    IF ~IsArray(arr) THEN Returned(FALSE, 0, arr)
    ELSE LET r == uniqueLoop("index", arr.items, 1, {})
         IN  Returned(r.ret, r.classified, arr)

\* An everyItemHasAUniqueRealType that compares neighbours only.
everyItemHasAUniqueRealType_p000_adjacent(arr) ==
    IF ~IsArray(arr) THEN Thrown("TypeError", arr)
    ELSE LET r == uniqueLoop_adjacent("p000", arr.items, 1, {})
         IN  Returned(r.ret, r.classified, arr)

everyItemHasAUniqueRealType_p000(arr) ==
    IF ~IsArray(arr) THEN Thrown("TypeError", arr)
    ELSE LET r == uniqueLoop("p000", arr.items, 1, {})
         IN  Returned(r.ret, r.classified, arr)

everyItemHasAUniqueRealType_p001(arr) ==
    IF ~IsArray(arr) THEN Thrown("TypeError", arr)
    ELSE LET r == uniqueLoop("p001", arr.items, 1, {})
         IN  Returned(r.ret, r.classified, arr)

(***************************************************************************)
(* Strings as sequences of UTF-16 code units, for the comparisons made by  *)
(* countRealTypes.  CodeUnits spells out the labels the classifiers        *)
(* return.                                                                 *)
(***************************************************************************)
CodeUnits(s) ==
    CASE s = "NaN" -> <<78, 97, 78>>
      [] s = "Infinity" -> <<73, 110, 102, 105, 110, 105, 116, 121>>
      [] s = "null" -> <<110, 117, 108, 108>>
      [] s = "array" -> <<97, 114, 114, 97, 121>>
      [] s = "date" -> <<100, 97, 116, 101>>
      [] s = "regexp" -> <<114, 101, 103, 101, 120, 112>>
      [] s = "set" -> <<115, 101, 116>>
      [] s = "map" -> <<109, 97, 112>>
      [] s = "error" -> <<101, 114, 114, 111, 114>>
      [] s = "arrayBuffer" -> <<97, 114, 114, 97, 121, 66, 117, 102, 102, 101, 114>>
      [] s = "dataView" -> <<100, 97, 116, 97, 86, 105, 101, 119>>
      [] s = "promise" -> <<112, 114, 111, 109, 105, 115, 101>>
      [] s = "number" -> <<110, 117, 109, 98, 101, 114>>
      [] s = "string" -> <<115, 116, 114, 105, 110, 103>>
      [] s = "boolean" -> <<98, 111, 111, 108, 101, 97, 110>>
      [] s = "object" -> <<111, 98, 106, 101, 99, 116>>
      [] s = "function" -> <<102, 117, 110, 99, 116, 105, 111, 110>>
      [] s = "undefined" -> <<117, 110, 100, 101, 102, 105, 110, 101, 100>>
      [] s = "symbol" -> <<115, 121, 109, 98, 111, 108>>
      [] s = "bigint" -> <<98, 105, 103, 105, 110, 116>>

\* x < y on strings: the first differing code unit decides, and a proper
\* prefix is smaller.
RECURSIVE StringLess(_, _)
StringLess(x, y) ==
    IF y = <<>> THEN FALSE
    ELSE IF x = <<>> THEN TRUE
    ELSE IF Head(x) # Head(y) THEN Head(x) < Head(y)
    ELSE StringLess(Tail(x), Tail(y))

\* String(k) of a non-negative integer: its decimal digits ("0" is 48).
RECURSIVE NumberToString(_)
NumberToString(k) ==
    IF k < 10 THEN <<48 + k>>
    ELSE NumberToString(k \div 10) \o <<48 + (k % 10)>>

\* String([label, count]): Array.prototype.toString joins with "," (44).
EntryToString(entry) ==
    CodeUnits(entry[1]) \o <<44>> \o NumberToString(entry[2])

\* The comparator handed to sort by the strict variants.
compareFn_p000(a, b) ==
    IF StringLess(CodeUnits(b[1]), CodeUnits(a[1])) THEN 1
    ELSE IF StringLess(CodeUnits(a[1]), CodeUnits(b[1])) THEN -1
    ELSE 0

compareFn_p001(a, b) ==
    IF StringLess(CodeUnits(b[1]), CodeUnits(a[1])) THEN 1
    ELSE IF StringLess(CodeUnits(a[1]), CodeUnits(b[1])) THEN -1
    ELSE 0

\* The comparison of sort() without a comparator: by the elements' strings.
SortCompare(a, b) ==
    IF StringLess(EntryToString(a), EntryToString(b)) THEN -1
    ELSE IF StringLess(EntryToString(b), EntryToString(a)) THEN 1
    ELSE 0

Compare(variant, a, b) ==
    CASE variant = "index" -> SortCompare(a, b)
      [] variant = "p000" -> compareFn_p000(a, b)
      [] variant = "p001" -> compareFn_p001(a, b)

\* Array.prototype.sort, a stable sort: each element is put after the
\* elements that do not compare greater than it.
RECURSIVE Insert(_, _, _)
Insert(variant, x, sorted) ==
    IF sorted = <<>> THEN <<x>>
    ELSE IF Compare(variant, x, Head(sorted)) < 0 THEN <<x>> \o sorted
    ELSE <<Head(sorted)>> \o Insert(variant, x, Tail(sorted))

RECURSIVE ArraySort(_, _)
ArraySort(variant, entries) ==
    IF entries = <<>> THEN <<>>
    ELSE Insert(variant, entries[Len(entries)],
                ArraySort(variant, SubSeq(entries, 1, Len(entries) - 1)))

(***************************************************************************)
(* countRealTypes.  result is the Map, as its entries in insertion order.  *)
(***************************************************************************)
MapHas(result, key) == \E k \in 1..Len(result) : result[k][1] = key

MapGet(result, key) ==
    result[CHOOSE k \in 1..Len(result) : result[k][1] = key][2]

\* Map.prototype.set: a key already present keeps its place.
MapSet(result, key, value) ==
    IF MapHas(result, key)
    THEN [k \in 1..Len(result) |->
             IF result[k][1] = key THEN <<key, value>> ELSE result[k]]
    ELSE Append(result, <<key, value>>)

RECURSIVE countLoop(_, _, _, _)
countLoop(variant, items, i, result) ==
    IF i > Len(items) THEN result
    ELSE LET type == getRealType(variant, items[i]) IN
         IF MapHas(result, type)
         THEN LET value == MapGet(result, type)
              IN  countLoop(variant, items, i + 1, MapSet(result, type, value + 1))
         ELSE countLoop(variant, items, i + 1, MapSet(result, type, 1))

\* A countRealTypes that returns the entries in insertion order.
countRealTypes_index_unsorted(arr) ==
    IF ~IsArray(arr) THEN Returned(<<>>, 0, arr)
    ELSE Returned(countLoop("index", arr.items, 1, <<>>), Len(arr.items), arr)

countRealTypes_index(arr) ==
    IF ~IsArray(arr) THEN Returned(<<>>, 0, arr)
    ELSE Returned(ArraySort("index", countLoop("index", arr.items, 1, <<>>)),
                  Len(arr.items), arr)

\* A countRealTypes that takes the elements out of its argument (arr.shift()).
countRealTypes_p000_shifting(arr) ==
    IF ~IsArray(arr) THEN Thrown("TypeError", arr)
    ELSE Returned(ArraySort("p000", countLoop("p000", arr.items, 1, <<>>)),
                  Len(arr.items), Arr(arr.id, <<>>))

countRealTypes_p000(arr) ==
    IF ~IsArray(arr) THEN Thrown("TypeError", arr)
    ELSE Returned(ArraySort("p000", countLoop("p000", arr.items, 1, <<>>)),
                  Len(arr.items), arr)

\* A countRealTypes with the permissive guard of src/index.js.
countRealTypes_p001_permissive(arr) ==
    IF ~IsArray(arr) THEN Returned(<<>>, 0, arr)
    ELSE Returned(ArraySort("p001", countLoop("p001", arr.items, 1, <<>>)),
                  Len(arr.items), arr)

countRealTypes_p001(arr) ==
    IF ~IsArray(arr) THEN Thrown("TypeError", arr)
    ELSE Returned(ArraySort("p001", countLoop("p001", arr.items, 1, <<>>)),
                  Len(arr.items), arr)

(***************************************************************************)
(* The test harness.                                                       *)
(***************************************************************************)
\* a === b: NaN equals nothing, objects are equal when they are one object.
StrictEquals(a, b) ==
    /\ a.tag = b.tag
    /\ CASE a.tag = "number" ->
                a.num # "nan" /\ b.num # "nan" /\ a.num = b.num /\ a.n = b.n
         [] a.tag = "bigint" -> a.n = b.n
         [] a.tag \in {"string", "boolean"} -> a.val = b.val
         [] a.tag \in {"object", "symbol"} -> a.id = b.id
         [] OTHER -> TRUE

\* A compareArrays that compares nested arrays with !== like any other element.
compareArrays_shallow(a, b) ==
    IF Len(a.items) # Len(b.items) THEN FALSE
    ELSE \A i \in 1..Len(a.items) : StrictEquals(a.items[i], b.items[i])

RECURSIVE compareArrays(_, _)
compareArrays(a, b) ==
    IF Len(a.items) # Len(b.items) THEN FALSE
    ELSE \A i \in 1..Len(a.items) :
            IF IsArray(a.items[i]) /\ IsArray(b.items[i])
            THEN compareArrays(a.items[i], b.items[i])
            ELSE StrictEquals(a.items[i], b.items[i])

areEqual_index(a, b) ==
    IF IsArray(a) /\ IsArray(b) THEN compareArrays(a, b)
    ELSE StrictEquals(a, b)

RECURSIVE areEqual_p000(_, _)
areEqual_p000(a, b) ==
    IF StrictEquals(a, b) THEN TRUE
    ELSE IF IsArray(a) /\ IsArray(b) /\ Len(a.items) = Len(b.items)
    THEN \A i \in 1..Len(a.items) : areEqual_p000(a.items[i], b.items[i])
    ELSE FALSE

RECURSIVE areEqual_p001(_, _)
areEqual_p001(a, b) ==
    IF StrictEquals(a, b) THEN TRUE
    ELSE IF IsArray(a) /\ IsArray(b) /\ Len(a.items) = Len(b.items)
    THEN \A i \in 1..Len(a.items) : areEqual_p001(a.items[i], b.items[i])
    ELSE FALSE

areEqual(variant, a, b) ==
    CASE variant = "index" -> areEqual_index(a, b)
      [] variant = "p000" -> areEqual_p000(a, b)
      [] variant = "p001" -> areEqual_p001(a, b)

\* One console call: the method, the text printed, or the value dumped.
TextLine(method, text) ==
    [method |-> method, dump |-> FALSE, text |-> text, value |-> Undefined]
DumpLine(method, value) ==
    [method |-> method, dump |-> TRUE, text |-> "", value |-> value]

\* A test that throws on a failed comparison, as an assertion would.
test_throwing(variant, whatWeTest, actualResult, expectedResult) ==
    IF areEqual(variant, actualResult, expectedResult)
    THEN [thrown |-> "none",
          lines |-> << TextLine("log", "[OK] " \o whatWeTest \o "\n") >>]
    ELSE [thrown |-> "Error",
          lines |-> << TextLine("error", "[FAIL] " \o whatWeTest) >>]

\* test(whatWeTest, actualResult, expectedResult): the lines it prints.
\* The function is the same in the three files but for the areEqual it calls.
\* No statement of it throws, so it always runs to its end.
test(variant, whatWeTest, actualResult, expectedResult) ==
    IF areEqual(variant, actualResult, expectedResult)
    THEN [thrown |-> "none",
          lines |-> << TextLine("log", "[OK] " \o whatWeTest \o "\n") >>]
    ELSE [thrown |-> "none",
          lines |-> << TextLine("error", "[FAIL] " \o whatWeTest),
                       TextLine("debug", "Expected:"),
                       DumpLine("debug", expectedResult),
                       TextLine("debug", "Actual:"),
                       DumpLine("debug", actualResult),
                       TextLine("log", "") >>]

\* console.groupEnd() closes the innermost open group, if there is one.
groupEnd(depth) == IF depth > 0 THEN depth - 1 ELSE 0

\* A testBlock that opens its group without closing the one before.
testBlock_nested(con, name) ==
    [depth |-> con.depth + 1,
     out |-> Append(con.out, TextLine("group", "# " \o name \o "\n")),
     halted |-> con.halted]

\* testBlock(name): the console after console.groupEnd(); console.group(..).
testBlock(con, name) ==
    [depth |-> groupEnd(con.depth) + 1,
     out |-> Append(con.out, TextLine("group", "# " \o name \o "\n")),
     halted |-> con.halted]

(***************************************************************************)
(* Inputs.                                                                 *)
(***************************************************************************)
\* const knownTypes of src/index.js
knownTypes_index ==
    << Bool(TRUE), Num(123), Str("whoo"), Arr(2, <<>>), Obj("Object", 3),
       Obj("Function", 4), Undefined, Null, NaN, PosInfinity, Obj("Date", 5),
       Obj("RegExp", 6), Obj("Set", 7) >>

\* const knownTypes of part_000 (part_001 lists values of the same shapes)
knownTypes_p000 ==
    << Bool(TRUE), Num(123), Str("whoo"), Arr(2, <<>>), Obj("Object", 3),
       Obj("Function", 4), Undefined, Null, NaN, PosInfinity, Obj("Date", 5),
       Obj("RegExp", 6), Obj("Set", 7), Obj("Map", 8), Sym, Obj("Error", 9),
       Obj("ArrayBuffer", 10), Obj("DataView", 11), Obj("Promise", 12) >>

\* new String('12'), as in the test 'All values are strings but wait'
StringObject == Obj("String", 13)

\* The shapes of single values: the known types, and -Infinity, a bigint,
\* false, a wrapped string and an instance of a subclass of Error.
Shapes ==
    { knownTypes_p000[i] : i \in 1..Len(knownTypes_p000) }
        \cup { NegInfinity, BigInt, Bool(FALSE), StringObject, Obj("TypeError", 14) }

\* The values the elements of a generated array are drawn from.
ArrayItems ==
    { Bool(TRUE), Num(123), NaN, PosInfinity, Str("whoo"), StringObject, Null,
      Obj("ArrayBuffer", 10) }

Arrays ==
    { Arr(1, items) : items \in UNION { [1..k -> ArrayItems] : k \in 0..MaxLen } }
        \cup { Arr(1, knownTypes_index), Arr(1, knownTypes_p000) }

Inputs == Shapes \cup Arrays

\* The calls test(description, actual, expected) a run may make.
TestCalls ==
    { <<"Boolean", Str("boolean"), Str("boolean")>>,
      <<"Null", Str("null"), Str("object")>>,
      <<"All values are numbers", Bool(TRUE), Bool(TRUE)>>,
      <<"Check basic types",
        Arr(21, <<Str("boolean"), Str("number")>>),
        Arr(22, <<Str("boolean"), Str("number")>>)>>,
      <<"Check real types",
        Arr(21, <<Str("boolean")>>),
        Arr(22, <<Str("boolean"), Str("number")>>)>>,
      <<"Counted unique types are sorted",
        Arr(21, <<Arr(23, <<Str("boolean"), Num(3)>>), Arr(24, <<Str("null"), Num(1)>>)>>),
        Arr(22, <<Arr(25, <<Str("boolean"), Num(3)>>), Arr(26, <<Str("null"), Num(1)>>)>>)>>,
      <<"Count unique types of array items",
        Arr(21, <<Arr(23, <<Str("boolean"), Num(2)>>)>>),
        Arr(22, <<Arr(25, <<Str("boolean"), Num(3)>>)>>)>>,
      <<"Two values have the same type", Arr(21, <<>>), Bool(FALSE)>>,
      <<"Values like a number", Arr(21, <<NaN>>), Arr(21, <<NaN>>)>> }

\* Values handed to areEqual: primitives, and arrays nested up to three deep.
\* Arrays with the same id are one object; the others are distinct objects,
\* some with equal contents, some holding one and the same inner array.
EqualValues ==
    LET pair == <<Str("boolean"), Num(3)>> IN
    { Str("boolean"), Str("null"), Num(3), NaN, Bool(FALSE),
      Arr(31, <<>>), Arr(32, <<>>),
      Arr(33, pair), Arr(34, pair), Arr(35, <<Str("boolean")>>),
      Arr(36, <<NaN>>), Arr(37, <<NaN>>),
      Arr(38, <<Arr(33, pair)>>), Arr(39, <<Arr(34, pair)>>),
      Arr(40, <<Arr(36, <<NaN>>)>>), Arr(41, <<Arr(36, <<NaN>>)>>),
      Arr(42, <<Arr(43, <<Arr(44, <<Num(3)>>)>>), Bool(FALSE)>>),
      Arr(45, <<Arr(46, <<Arr(47, <<Num(3)>>)>>), Bool(FALSE)>>),
      Arr(48, <<Arr(49, <<Arr(50, <<Num(2)>>)>>), Bool(FALSE)>>),
      Arr(51, <<Num(3), Arr(31, <<>>)>>), Arr(52, <<Arr(32, <<>>), Num(3)>>) }

BlockNames == {"countRealTypes"}

(***************************************************************************)
(* State.                                                                  *)
(***************************************************************************)
VARIABLES
    mem,      \* per variant, the caller's argument as it is now
    orig,     \* the argument as the caller built it
    last,     \* the last classifier call: its name, whether it repeats the call
              \* before it, and per variant its outcome
    console,  \* per variant: group depth, lines printed, halted by an uncaught error
    tests     \* the harness calls made so far, in order

vars == <<mem, orig, last, console, tests>>

Ops ==
    {"getType", "getRealType", "getTypesOfItems", "allItemsHaveTheSameType",
     "getRealTypesOfItems", "everyItemHasAUniqueRealType", "countRealTypes"}

getTypesOfItems(variant, arr) ==
    CASE variant = "index" -> getTypesOfItems_index(arr)
      [] variant = "p000" -> getTypesOfItems_p000(arr)
      [] variant = "p001" -> getTypesOfItems_p001(arr)

allItemsHaveTheSameType(variant, arr) ==
    CASE variant = "index" -> allItemsHaveTheSameType_index(arr)
      [] variant = "p000" -> allItemsHaveTheSameType_p000(arr)
      [] variant = "p001" -> allItemsHaveTheSameType_p001(arr)

getRealTypesOfItems(variant, arr) ==
    CASE variant = "index" -> getRealTypesOfItems_index(arr)
      [] variant = "p000" -> getRealTypesOfItems_p000(arr)
      [] variant = "p001" -> getRealTypesOfItems_p001(arr)

everyItemHasAUniqueRealType(variant, arr) ==
    CASE variant = "index" -> everyItemHasAUniqueRealType_index(arr)
      [] variant = "p000" -> everyItemHasAUniqueRealType_p000(arr)
      [] variant = "p001" -> everyItemHasAUniqueRealType_p001(arr)

countRealTypes(variant, arr) ==
    CASE variant = "index" -> countRealTypes_index(arr)
      [] variant = "p000" -> countRealTypes_p000(arr)
      [] variant = "p001" -> countRealTypes_p001(arr)

\* Calling operation op of a variant on a value.
Run(variant, op, value) ==
    CASE op = "getType" -> Returned(getType(variant, value), 1, value)
      [] op = "getRealType" -> Returned(getRealType(variant, value), 1, value)
      [] op = "getTypesOfItems" -> getTypesOfItems(variant, value)
      [] op = "allItemsHaveTheSameType" -> allItemsHaveTheSameType(variant, value)
      [] op = "getRealTypesOfItems" -> getRealTypesOfItems(variant, value)
      [] op = "everyItemHasAUniqueRealType" -> everyItemHasAUniqueRealType(variant, value)
      [] op = "countRealTypes" -> countRealTypes(variant, value)

\* What last keeps of an outcome: all but the argument, which mem holds.
Result(outcome) ==
    [returned |-> outcome.returned, thrown |-> outcome.thrown,
     ret |-> outcome.ret, classified |-> outcome.classified]

NoCall == [returned |-> FALSE, thrown |-> "none", ret |-> <<>>, classified |-> 0]

NewConsole == [depth |-> 0, out |-> <<>>, halted |-> FALSE]

InitWith(value) ==
    /\ mem = [v \in Variants |-> value]
    /\ orig = value
    /\ last = [op |-> "none", again |-> FALSE, res |-> [v \in Variants |-> NoCall]]
    /\ console = [v \in Variants |-> NewConsole]
    /\ tests = <<>>

Init == \E value \in Inputs : InitWith(value)

\* One call of a classifier on the caller's value, in each variant.
Call(op) ==
    LET res == [v \in Variants |-> Run(v, op, mem[v])] IN
    /\ last' = [op |-> op, again |-> (op = last.op),
                res |-> [v \in Variants |-> Result(res[v])]]
    /\ mem' = [v \in Variants |-> res[v].arg]
    /\ UNCHANGED <<orig, console, tests>>

CallGetType == Call("getType")
CallGetRealType == Call("getRealType")
CallGetTypesOfItems == Call("getTypesOfItems")
CallAllItemsHaveTheSameType == Call("allItemsHaveTheSameType")
CallGetRealTypesOfItems == Call("getRealTypesOfItems")
CallEveryItemHasAUniqueRealType == Call("everyItemHasAUniqueRealType")
CallCountRealTypes == Call("countRealTypes")

Next ==
    \/ CallGetType
    \/ CallGetRealType
    \/ CallGetTypesOfItems
    \/ CallAllItemsHaveTheSameType
    \/ CallGetRealTypesOfItems
    \/ CallEveryItemHasAUniqueRealType
    \/ CallCountRealTypes

Spec == Init /\ [][Next]_vars

(***************************************************************************)
(* The harness run: a script of testBlock and test calls.  An error that   *)
(* escapes a call ends the script of that variant.                         *)
(***************************************************************************)
TestStep(variant, con, call) ==
    IF con.halted THEN con
    ELSE LET r == test(variant, call[1], call[2], call[3]) IN
         [depth |-> con.depth, out |-> con.out \o r.lines,
          halted |-> r.thrown # "none"]

CallTest ==
    \E call \in TestCalls :
        /\ Len(tests) < MaxCalls
        /\ console' = [v \in Variants |-> TestStep(v, console[v], call)]
        /\ tests' = Append(tests, [kind |-> "test", desc |-> call[1],
                                   actual |-> call[2], expected |-> call[3]])
        /\ UNCHANGED <<mem, orig, last>>

CallTestBlock ==
    \E name \in BlockNames :
        /\ Len(tests) < MaxCalls
        /\ console' = [v \in Variants |->
                          IF console[v].halted THEN console[v]
                          ELSE testBlock(console[v], name)]
        /\ tests' = Append(tests, [kind |-> "testBlock", desc |-> name,
                                   actual |-> Undefined, expected |-> Undefined])
        /\ UNCHANGED <<mem, orig, last>>

\* test('areEqual', a, b) on any pair of the values above.
CallCompare ==
    \E a \in EqualValues, b \in EqualValues :
        /\ Len(tests) < MaxCompares
        /\ console' = [v \in Variants |->
                          TestStep(v, console[v], <<"areEqual", a, b>>)]
        /\ tests' = Append(tests, [kind |-> "test", desc |-> "areEqual",
                                   actual |-> a, expected |-> b])
        /\ UNCHANGED <<mem, orig, last>>

NextTest == CallTestBlock \/ CallTest

InitTest == InitWith(Arr(1, knownTypes_p000))

SpecTest == InitTest /\ [][NextTest]_vars

(***************************************************************************)
(* Properties.                                                             *)
(***************************************************************************)
SeqOps == Ops \ {"getType", "getRealType"}

\* The labels of the rules of getRealType, in the order of the rules.
RuleLabels ==
    << "NaN", "Infinity", "null", "array", "date", "regexp", "set", "map",
       "error", "arrayBuffer", "dataView", "promise" >>

\* The class each instance rule asks for ("" for the four rules before them).
RuleClasses ==
    << "", "", "", "", "Date", "RegExp", "Set", "Map", "Error", "ArrayBuffer",
       "DataView", "Promise" >>

RuleMatches(k, value) ==
    CASE k = 1 -> TypeOf(value) = "number" /\ value.num = "nan"
      [] k = 2 -> TypeOf(value) = "number" /\ value.num \in {"posinf", "neginf"}
      [] k = 3 -> value.tag = "null"
      [] k = 4 -> value.tag = "object" /\ value.cls = "Array"
      [] OTHER -> value.tag = "object" /\ RuleClasses[k] \in ProtoChain(value.cls)

\* The label of the first rule that matches, the typeof label when none does.
FirstMatch(value) ==
    LET matching == { k \in 1..Len(RuleLabels) : RuleMatches(k, value) } IN
    IF matching = {} THEN TypeOf(value)
    ELSE RuleLabels[CHOOSE k \in matching : \A j \in matching : k <= j]

\* C1: in the strict variants getRealType returns, for every value, the label
\* of the first matching rule of the fixed order NaN, Infinity, null, array,
\* date, regexp, set, map, error, arrayBuffer, dataView, promise, and the
\* typeof label when no rule matches; a finite number is "number", and the
\* label differs from the typeof label only for typeof "number" or "object".
C1_FirstMatchingRule ==
    last.op = "getRealType" =>
        \A v \in Strict :
            /\ last.res[v].returned
            /\ last.res[v].ret = FirstMatch(mem[v])
            /\ (mem[v].tag = "number" /\ mem[v].num = "finite"
                    => last.res[v].ret = "number")
            /\ (last.res[v].ret # TypeOf(mem[v])
                    => TypeOf(mem[v]) \in {"number", "object"})

\* C1 witness: -Infinity, a number that is not finite, was labelled "Infinity"
\* by both strict variants.
C1_Witness ==
    /\ last.op = "getRealType"
    /\ orig = NegInfinity
    /\ \A v \in Strict : last.res[v].ret = "Infinity"

\* C2: getRealType of src/index.js returns, for every value, the label that
\* getRealType of part_001 returns (so a Map is "map", an Error "error", an
\* ArrayBuffer "arrayBuffer", a DataView "dataView", a Promise "promise").
C2_IndexLabelsLikeStrict ==
    last.op = "getRealType" => last.res["index"].ret = last.res["p001"].ret

\* The labels in ascending order of ordinary string comparison.
SortedLabels ==
    << "Infinity", "NaN", "array", "arrayBuffer", "bigint", "boolean",
       "dataView", "date", "error", "function", "map", "null", "number",
       "object", "promise", "regexp", "set", "string", "symbol", "undefined" >>

Rank(label) == CHOOSE k \in 1..Len(SortedLabels) : SortedLabels[k] = label

RECURSIVE SumOfCounts(_)
SumOfCounts(entries) ==
    IF entries = <<>> THEN 0 ELSE entries[1][2] + SumOfCounts(Tail(entries))

\* C3: countRealTypes returns one [label, count] pair per distinct
\* getRealType label of the array, each count is the number of elements with
\* that label (at least 1, summing to the length), the pairs are in strictly
\* ascending order of label, and the order of the elements does not matter;
\* with the comparator of the strict variants and with sort() of src/index.js.
C3_CountsSortedByLabel ==
    last.op = "countRealTypes" =>
        \A v \in Variants :
            IsArray(mem[v]) =>
                LET items == mem[v].items
                    ret == last.res[v].ret
                    labels == { getRealType(v, items[i]) : i \in 1..Len(items) }
                IN  /\ last.res[v].returned
                    /\ Len(ret) = Cardinality(labels)
                    /\ { ret[k][1] : k \in 1..Len(ret) } = labels
                    /\ \A k \in 1..Len(ret) :
                          /\ ret[k][2] = Cardinality({ i \in 1..Len(items) :
                                             getRealType(v, items[i]) = ret[k][1] })
                          /\ ret[k][2] >= 1
                    /\ SumOfCounts(ret) = Len(items)
                    /\ \A k \in 1..(Len(ret) - 1) :
                          Rank(ret[k][1]) < Rank(ret[k + 1][1])
                    /\ Run(v, "countRealTypes", Arr(1, Reverse(items))).ret = ret

\* C3 witness: [null, true, null] was counted as [["boolean", 1], ["null", 2]]
\* by every variant, the pair inserted last coming first.
C3_Witness ==
    /\ last.op = "countRealTypes"
    /\ orig = Arr(1, <<Null, Bool(TRUE), Null>>)
    /\ \A v \in Variants :
          last.res[v].ret = << <<"boolean", 1>>, <<"null", 2>> >>

\* C4: everyItemHasAUniqueRealType returns true exactly when no two elements
\* at different positions have the same getRealType label (true for the empty
\* array), wherever the repeat is.
C4_UniqueIffNoRepeat ==
    last.op = "everyItemHasAUniqueRealType" =>
        \A v \in Variants :
            IsArray(mem[v]) =>
                LET items == mem[v].items IN
                /\ last.res[v].returned
                /\ last.res[v].ret =
                      (\A i, j \in 1..Len(items) :
                          i # j => getRealType(v, items[i]) # getRealType(v, items[j]))

\* C4 witness: [true, 123, true], whose repeat is not between neighbours, was
\* found not unique.
C4_Witness ==
    /\ last.op = "everyItemHasAUniqueRealType"
    /\ orig = Arr(1, <<Bool(TRUE), Num(123), Bool(TRUE)>>)
    /\ \A v \in Variants : last.res[v].returned /\ last.res[v].ret = FALSE

\* C5: allItemsHaveTheSameType returns true when the array has 0 or 1
\* elements or every element has the typeof label of the first, false
\* otherwise; src/index.js gives the same result as the strict variants.
C5_SameTypeofAsFirst ==
    last.op = "allItemsHaveTheSameType" =>
        \A v \in Variants :
            IsArray(mem[v]) =>
                LET items == mem[v].items IN
                /\ last.res[v].returned
                /\ last.res[v].ret =
                      (\/ Len(items) <= 1
                       \/ \A i \in 1..Len(items) : TypeOf(items[i]) = TypeOf(items[1]))
                /\ last.res[v].ret = last.res["p000"].ret

\* C5 witness: [123, NaN, Infinity] was found uniform by every variant.
C5_Witness ==
    /\ last.op = "allItemsHaveTheSameType"
    /\ orig = Arr(1, <<Num(123), NaN, PosInfinity>>)
    /\ \A v \in Variants : last.res[v].returned /\ last.res[v].ret = TRUE

\* C6: getTypesOfItems and getRealTypesOfItems return a sequence as long as
\* the array whose i-th element is getType, respectively getRealType, of the
\* i-th element of the array.
C6_OneLabelPerItemInOrder ==
    \A v \in Variants :
        IsArray(mem[v]) =>
            LET items == mem[v].items
                ret == last.res[v].ret
            IN  /\ last.op = "getTypesOfItems" =>
                      /\ last.res[v].returned
                      /\ Len(ret) = Len(items)
                      /\ \A i \in 1..Len(items) : ret[i] = getType(v, items[i])
                /\ last.op = "getRealTypesOfItems" =>
                      /\ last.res[v].returned
                      /\ Len(ret) = Len(items)
                      /\ \A i \in 1..Len(items) : ret[i] = getRealType(v, items[i])

\* C6 witness: getTypesOfItems(knownTypes) of part_000 returned the list its
\* test 'Check basic types' expects.
C6_Witness ==
    /\ last.op = "getTypesOfItems"
    /\ orig = Arr(1, knownTypes_p000)
    /\ last.res["p000"].ret =
          << "boolean", "number", "string", "object", "object", "function",
             "undefined", "object", "number", "number", "object", "object",
             "object", "object", "symbol", "object", "object", "object",
             "object" >>

\* C7: in the strict variants each of the five sequence operations, called
\* with a non-array, throws a TypeError before classifying anything and
\* returns no value.
C7_StrictThrowsTypeError ==
    (last.op \in SeqOps) =>
        \A v \in Strict :
            ~IsArray(mem[v]) =>
                /\ last.res[v].thrown = "TypeError"
                /\ ~last.res[v].returned
                /\ last.res[v].classified = 0

\* C7 witness: countRealTypes(null) threw in both strict variants.
C7_Witness ==
    /\ last.op = "countRealTypes"
    /\ orig = Null
    /\ \A v \in Strict : last.res[v].thrown = "TypeError" /\ ~last.res[v].returned

\* C8: in src/index.js no sequence operation throws on a non-array:
\* getTypesOfItems, getRealTypesOfItems and countRealTypes return the empty
\* sequence, allItemsHaveTheSameType and everyItemHasAUniqueRealType false.
C8_PermissiveReturnsEmptyOrFalse ==
    (last.op \in SeqOps /\ ~IsArray(mem["index"])) =>
        /\ last.res["index"].returned
        /\ last.res["index"].thrown = "none"
        /\ IF last.op \in {"allItemsHaveTheSameType", "everyItemHasAUniqueRealType"}
           THEN last.res["index"].ret = FALSE
           ELSE last.res["index"].ret = <<>>

\* C8 witness: everyItemHasAUniqueRealType('whoo') returned false in
\* src/index.js.
C8_Witness ==
    /\ last.op = "everyItemHasAUniqueRealType"
    /\ orig = Str("whoo")
    /\ last.res["index"].returned
    /\ last.res["index"].ret = FALSE

\* C10: after any sequence of calls the argument is as the caller built it
\* (same elements, same order), and the call just made returned what the
\* same operation returns on the value as it was before the first call.
C10_NoStateNoMutation ==
    \A v \in Variants :
        /\ mem[v] = orig
        /\ last.op # "none" => last.res[v] = Result(Run(v, last.op, orig))

\* C10 witness: countRealTypes was called twice in a row on [123, true]; the
\* array is still [123, true] and the result is the sorted count.
C10_Witness ==
    /\ last.op = "countRealTypes"
    /\ last.again
    /\ orig = Arr(1, <<Num(123), Bool(TRUE)>>)
    /\ \A v \in Variants :
          /\ mem[v] = orig
          /\ last.res[v].ret = << <<"boolean", 1>>, <<"number", 1>> >>

\* A verdict line: what console.error prints, or a console.log that is not
\* the blank line closing a failure report.
IsVerdict(line) ==
    /\ ~line.dump
    /\ line.method = "error" \/ (line.method = "log" /\ line.text # "")

VerdictLines(out) == SelectSeq(out, IsVerdict)

TestsMade == SelectSeq(tests, LAMBDA t : t.kind = "test")

\* The place in out of its k-th verdict line.
VerdictPlace(out, k) ==
    CHOOSE p \in 1..Len(out) :
        /\ IsVerdict(out[p])
        /\ Cardinality({ q \in 1..p : IsVerdict(out[q]) }) = k

\* C9: every test call runs to its end without throwing and prints exactly
\* one verdict line, "[OK] description" when areEqual(actual, expected) and
\* "[FAIL] description" followed by the dumped expected and actual values
\* otherwise, in call order; a failed comparison stops no later call.
C9_OneVerdictPerTest ==
    \A v \in Variants :
        LET out == console[v].out
            verdicts == VerdictLines(out)
        IN  /\ ~console[v].halted
            /\ Len(verdicts) = Len(TestsMade)
            /\ \A k \in 1..Len(TestsMade) :
                  LET t == TestsMade[k]
                      p == VerdictPlace(out, k)
                  IN  IF areEqual(v, t.actual, t.expected)
                      THEN verdicts[k] = TextLine("log", "[OK] " \o t.desc \o "\n")
                      ELSE /\ verdicts[k] = TextLine("error", "[FAIL] " \o t.desc)
                           /\ p + 4 <= Len(out)
                           /\ out[p + 2] = DumpLine("debug", t.expected)
                           /\ out[p + 4] = DumpLine("debug", t.actual)

\* C9 witness: the test 'Null' failed, the test 'Boolean' made after it
\* passed, and part_000 printed both verdicts in that order.
C9_Witness ==
    /\ Len(tests) = 2
    /\ tests[1].kind = "test" /\ tests[1].desc = "Null"
    /\ tests[2].kind = "test" /\ tests[2].desc = "Boolean"
    /\ ~console["p000"].halted
    /\ VerdictLines(console["p000"].out) =
          << TextLine("error", "[FAIL] Null"), TextLine("log", "[OK] Boolean\n") >>

(***************************************************************************)
(* The harness on pairs of values: what areEqual answers is read off the   *)
(* verdict that test prints.                                               *)
(***************************************************************************)
NextEqual == CallCompare

SpecEqual == InitTest /\ [][NextEqual]_vars

\* Whether the k-th test call of a variant printed [OK].
Passed(v, k) == VerdictLines(console[v].out)[k].method = "log"

\* Deep structural equality: strictly equal primitives, or arrays of one
\* length whose elements are equal in this sense.
RECURSIVE Structural(_, _)
Structural(a, b) ==
    IF IsArray(a) /\ IsArray(b)
    THEN /\ Len(a.items) = Len(b.items)
         /\ \A i \in 1..Len(a.items) : Structural(a.items[i], b.items[i])
    ELSE ~IsArray(a) /\ ~IsArray(b) /\ StrictEquals(a, b)

\* The same, with one array object always equal to itself.
RECURSIVE StructuralOrSame(_, _)
StructuralOrSame(a, b) ==
    IF IsArray(a) /\ IsArray(b)
    THEN \/ a.id = b.id
         \/ /\ Len(a.items) = Len(b.items)
            /\ \A i \in 1..Len(a.items) :
                  StructuralOrSame(a.items[i], b.items[i])
    ELSE ~IsArray(a) /\ ~IsArray(b) /\ StrictEquals(a, b)

RECURSIVE HoldsNaN(_)
HoldsNaN(x) ==
    IF IsArray(x) THEN \E i \in 1..Len(x.items) : HoldsNaN(x.items[i])
    ELSE x.tag = "number" /\ x.num = "nan"

\* An array holding NaN meets itself, at the top or at one index in both.
RECURSIVE NaNArrayMeetsItself(_, _)
NaNArrayMeetsItself(a, b) ==
    /\ IsArray(a) /\ IsArray(b)
    /\ \/ a.id = b.id /\ HoldsNaN(a)
       \/ /\ Len(a.items) = Len(b.items)
          /\ \E i \in 1..Len(a.items) :
                NaNArrayMeetsItself(a.items[i], b.items[i])

\* C11 as claimed: areEqual is deep structural equality in every variant,
\* symmetric, and the recursive areEqual of part_000 and areEqual of
\* src/index.js answer alike on every pair of primitives and arrays, also
\* when a and b are the same array object.
C11_StructuralInEveryVariant ==
    \A k \in 1..Len(TestsMade) :
        LET a == TestsMade[k].actual
            b == TestsMade[k].expected
        IN  /\ \A v \in Variants :
                  /\ Passed(v, k) = Structural(a, b)
                  /\ Passed(v, k) = areEqual(v, b, a)
            /\ Passed("index", k) = Passed("p000", k)

\* C11 as amended: areEqual of src/index.js is deep structural equality; the
\* recursive areEqual of part_000 and part_001 is deep structural equality
\* in which one array object is always equal to itself; both are symmetric,
\* and they answer alike on every pair in which no array holding NaN meets
\* itself.
C11_StructuralUpToIdentity ==
    \A k \in 1..Len(TestsMade) :
        LET a == TestsMade[k].actual
            b == TestsMade[k].expected
        IN  /\ Passed("index", k) = Structural(a, b)
            /\ \A v \in Strict : Passed(v, k) = StructuralOrSame(a, b)
            /\ \A v \in Variants : Passed(v, k) = areEqual(v, b, a)
            /\ ~NaNArrayMeetsItself(a, b) =>
                  \A v \in Variants : Passed(v, k) = Passed("index", k)

\* C11 witness: two distinct arrays each holding the same array [NaN] were
\* compared; part_000 and part_001 printed [OK], src/index.js [FAIL].
C11_Witness ==
    /\ Len(tests) = 1
    /\ tests[1].actual = Arr(40, <<Arr(36, <<NaN>>)>>)
    /\ tests[1].expected = Arr(41, <<Arr(36, <<NaN>>)>>)
    /\ \A v \in Strict : Passed(v, 1)
    /\ ~Passed("index", 1)

BlocksMade == SelectSeq(tests, LAMBDA t : t.kind = "testBlock")

GroupLines(out) == SelectSeq(out, LAMBDA line : line.method = "group")

\* The verdict lines of a script that makes the given test calls and never
\* calls testBlock.
RECURSIVE VerdictsOf(_, _)
VerdictsOf(v, calls) ==
    IF calls = <<>> THEN <<>>
    ELSE << test(v, calls[1].desc, calls[1].actual, calls[1].expected).lines[1] >>
             \o VerdictsOf(v, Tail(calls))

\* C12: after any interleaving of testBlock and test calls the group depth is
\* 0 before the first testBlock call and exactly 1 after every testBlock call
\* (never more than 1), each testBlock call having printed one group header
\* "# name"; test calls leave the depth as it is, and the verdicts printed
\* are those of the same test calls made without any testBlock call.
C12_DepthAtMostOne ==
    \A v \in Variants :
        /\ console[v].depth = (IF BlocksMade = <<>> THEN 0 ELSE 1)
        /\ console[v].depth <= 1
        /\ GroupLines(console[v].out) =
              [k \in 1..Len(BlocksMade) |->
                  TextLine("group", "# " \o BlocksMade[k].desc \o "\n")]
        /\ VerdictLines(console[v].out) = VerdictsOf(v, TestsMade)

\* C12 witness: testBlock, a failing test, testBlock again: the depth is 1 in
\* every variant and the verdict is there between two group headers.
C12_Witness ==
    /\ Len(tests) = 3
    /\ tests[1].kind = "testBlock"
    /\ tests[2].kind = "test" /\ tests[2].desc = "Null"
    /\ tests[3].kind = "testBlock"
    /\ \A v \in Variants :
          /\ console[v].depth = 1
          /\ Len(GroupLines(console[v].out)) = 2
          /\ VerdictLines(console[v].out) = << TextLine("error", "[FAIL] Null") >>

====
